---- MODULE Spec2Model ----
(***************************************************************************)
(* Model of TransactionOrchestrator (src/transaction_orchestrator.py).     *)
(*                                                                         *)
(* One orchestrator owns a pool (asset id -> balance) and a history list.  *)
(* execute_secure_transfer is a coroutine with exactly one suspension      *)
(* point, the await asyncio.sleep(0.05) of line 52.  Everything before it  *)
(* (lines 29-47) runs without interruption and is the action Begin; what   *)
(* follows it (lines 55-67) runs without interruption and is the action    *)
(* Resume.  Coroutines that are asleep may be resumed in any order.        *)
(*                                                                         *)
(* The field processed_at (datetime.now()) of the COMMITTED payload is a   *)
(* wall-clock reading that no other part of the code reads; it is left     *)
(* out of the payload record.                                              *)
(***************************************************************************)
EXTENDS Integers, Sequences, FiniteSets, TLC

\* ---- bounds of the model ----
NumCalls == 2
MaxBalance == 2
MaxAmount == 2

Calls == 1..NumCalls
PoolAssets == {"gold", "silver"}
AssetIds == PoolAssets \cup {"ghost"}
Amounts == -1..MaxAmount
\* "None" is no metadata; "k1" stands for the dict a caller passes to name its
\* idempotency key and a destination asset that the pool does not hold:
\* {"idempotency_key": "k1", "destination": "ghost"}
Metadata == {"None", "k1"}

VARIABLES
  pool,            \* self._pool
  resource_pool,   \* the value of the constructor argument at construction
  history,         \* self._history
  pc,              \* per call: "idle" (not called), "sleeping" (at line 52), "done" (returned)
  asset_id,        \* per call: argument asset_id
  amount,          \* per call: argument amount
  metadata,        \* per call: argument metadata
  tx_id,           \* per call: local tx_id (line 29)
  current_balance, \* per call: local current_balance (line 42)
  result,          \* per call: the returned dict
  alone            \* per call: no other call was in flight at any time since this call began

vars == <<pool, resource_pool, history, pc, asset_id, amount, metadata,
          tx_id, current_balance, result, alone>>

NoResult == [status |-> "NONE"]

\* line 29: uuid.uuid4() gives an id no earlier call has; ids are numbered in call order
uuid4 == Cardinality({c \in Calls : pc[c] # "idle"}) + 1

\* line 74-76
_format_response(tx, status, detail) ==
  [tx_hash |-> tx, status |-> status, payload |-> detail]

\* line 47: the detail text of a rejection (Korean for "resource shortage"), romanised
rejected_detail == "jawon bujok"

\* line 72
critical_failure(tx) == [status |-> "CRITICAL_FAILURE", trace |-> tx]

\* line 65: metadata or {}
meta_or_empty(m) == IF m = "None" THEN "{}" ELSE m

\* the sufficiency check left out
can_proceed_unchecked(bal, amt) == TRUE

\* line 43
can_proceed(bal, amt) == bal >= amt

\* the amount added instead of subtracted
debit_wrong_sign(bal, amt) == bal + amt

\* line 55: the value stored by  self._pool[asset_id] -= amount
debit(bal, amt) == bal - amt

\* lines 34-52 and 69-72: how the synchronous first part of the call ends
outcome(p, a, amt) ==
  IF a \notin DOMAIN p THEN "raise"
  ELSE IF ~can_proceed(p[a], amt) THEN "reject"
  ELSE "sleep"

in_flight == {c \in Calls : pc[c] = "sleeping"}

Init ==
  /\ pool \in [PoolAssets -> 0..MaxBalance]
  /\ resource_pool = pool
  /\ history = <<>>
  /\ pc = [c \in Calls |-> "idle"]
  /\ asset_id = [c \in Calls |-> "None"]
  /\ amount = [c \in Calls |-> 0]
  /\ metadata = [c \in Calls |-> "None"]
  /\ tx_id = [c \in Calls |-> 0]
  /\ current_balance = [c \in Calls |-> 0]
  /\ result = [c \in Calls |-> NoResult]
  /\ alone = [c \in Calls |-> TRUE]

\* lines 22-52: the call runs up to its first suspension point or to an early return
\* Calls are numbered in the order in which they are made.
Begin(c, a, amt, m) ==
  /\ pc[c] = "idle"
  /\ \A d \in Calls : d < c => pc[d] # "idle"
  /\ asset_id' = [asset_id EXCEPT ![c] = a]
  /\ amount' = [amount EXCEPT ![c] = amt]
  /\ metadata' = [metadata EXCEPT ![c] = m]
  /\ tx_id' = [tx_id EXCEPT ![c] = uuid4]
  /\ alone' = [d \in Calls |->
                 IF d = c THEN in_flight = {}
                 ELSE IF d \in in_flight THEN FALSE ELSE alone[d]]
  /\ LET o == outcome(pool, a, amt) IN
       /\ current_balance' = [current_balance EXCEPT ![c] =
                                 IF a \in DOMAIN pool THEN pool[a] ELSE 0]
       /\ pc' = [pc EXCEPT ![c] = IF o = "sleep" THEN "sleeping" ELSE "done"]
       /\ result' = [result EXCEPT ![c] =
                       CASE o = "raise"  -> critical_failure(uuid4)
                         [] o = "reject" -> _format_response(uuid4, "REJECTED", rejected_detail)
                         [] o = "sleep"  -> NoResult]
  /\ UNCHANGED <<pool, resource_pool, history>>

\* the decrement applied to the balance read before the sleep (line 42)
pool_after_debit_stale(p, c) ==
  [p EXCEPT ![asset_id[c]] = debit(current_balance[c], amount[c])]

\* the decrement applied to every asset of the pool
pool_after_debit_all(p, c) ==
  [a \in DOMAIN p |-> debit(p[a], amount[c])]

\* line 55: the pool after  self._pool[asset_id] -= amount  of call c, which
\* reads the balance anew and writes it in the same uninterrupted stretch
pool_after_debit(p, c) ==
  [p EXCEPT ![asset_id[c]] = debit(p[asset_id[c]], amount[c])]

\* the reported balance computed from the balance read before the sleep
balance_after_stale(p, c) == current_balance[c] - amount[c]

\* line 63: the balance_after of call c, read from the pool after the decrement
balance_after(p, c) == p[asset_id[c]]

\* lines 55-67: the call wakes up, debits and returns
Resume(c) ==
  /\ pc[c] = "sleeping"
  /\ pool' = pool_after_debit(pool, c)
  /\ result' = [result EXCEPT ![c] =
        _format_response(tx_id[c], "COMMITTED",
          [balance_after |-> balance_after(pool', c),
           meta |-> meta_or_empty(metadata[c])])]
  /\ pc' = [pc EXCEPT ![c] = "done"]
  /\ UNCHANGED <<resource_pool, history, asset_id, amount, metadata, tx_id,
                 current_balance, alone>>

Next ==
  \/ \E c \in Calls, a \in AssetIds, amt \in Amounts, m \in Metadata : Begin(c, a, amt, m)
  \/ \E c \in Calls : Resume(c)

Spec == Init /\ [][Next]_vars

\* line 52: the event loop wakes every coroutine that sleeps, 0.05 s after it
\* went to sleep.  Whether a call returns does not depend on the balances, so
\* the behaviours with fairness start from one pool, in which an amount can
\* be below, equal to or above the balance.
FairInit == Init /\ pool = [a \in PoolAssets |-> 1]

FairSpec == FairInit /\ [][Next]_vars /\ \A c \in Calls : WF_vars(Resume(c))

TypeOK ==
  /\ DOMAIN pool = PoolAssets
  /\ history = <<>>
  /\ \A c \in Calls : pc[c] \in {"idle", "sleeping", "done"}
\* ---- helpers of the properties ----

started == {c \in Calls : pc[c] # "idle"}
finished == {c \in Calls : pc[c] = "done"}

\* call c returns in this step
Returns(c) == pc[c] # "done" /\ pc'[c] = "done"

\* call c is made in this step
Begins(c) == pc[c] = "idle" /\ pc'[c] # "idle"

\* two returned dicts agree on transaction id, status and balance_after
same_result(r1, r2) ==
  /\ r1.status = r2.status
  /\ IF r1.status = "CRITICAL_FAILURE" THEN r1.trace = r2.trace
     ELSE /\ r1.tx_hash = r2.tx_hash
          /\ r1.status = "COMMITTED" =>
               r1.payload.balance_after = r2.payload.balance_after

\* c and d are submissions of the same logical transfer: same arguments, the
\* metadata carrying the idempotency key
same_transfer(c, d) ==
  /\ metadata[c] # "None"
  /\ metadata[c] = metadata[d]
  /\ asset_id[c] = asset_id[d]
  /\ amount[c] = amount[d]

\* all orders of the calls of a set
Orders(S) ==
  {f \in [1..Cardinality(S) -> S] : \A i, j \in DOMAIN f : f[i] = f[j] => i = j}

\* the transfer (lines 42-67) executed with nothing else in flight: status and balance
alone_transfer(bal, amt) ==
  IF can_proceed(bal, amt) THEN <<"COMMITTED", debit(bal, amt)>>
  ELSE <<"REJECTED", bal>>

\* balance after the first n transfers of order, executed one at a time from bal
RECURSIVE balance_after_prefix(_, _, _)
balance_after_prefix(order, n, bal) ==
  IF n = 0 THEN bal
  ELSE alone_transfer(balance_after_prefix(order, n - 1, bal), amount[order[n]])[2]

\* status of the n-th transfer of order, executed one at a time from bal
status_in_order(order, n, bal) ==
  alone_transfer(balance_after_prefix(order, n - 1, bal), amount[order[n]])[1]

\* ---- C1 ----
\* C1: when every call made so far has amount > 0, the balance of every asset
\* of the pool is >= 0 in every reachable state.
C1_BalanceNeverNegative ==
  (\A c \in started : amount[c] > 0) => \A a \in DOMAIN pool : pool[a] >= 0

\* ---- C2 ----
\* C2: the step in which a transfer applies its decrement changes the balance
\* (by amount) if and only if the balance is >= amount at that moment;
\* otherwise the step changes nothing in the pool.
C2_DebitAtomicWithCheck ==
  [][\A c \in Calls :
       (pc[c] = "sleeping" /\ pc'[c] = "done") =>
         IF pool[asset_id[c]] >= amount[c]
         THEN pool' = [pool EXCEPT ![asset_id[c]] = @ - amount[c]]
         ELSE pool' = pool]_vars

\* ---- C3 ----
\* C3: once no transfer is in flight, for every asset the statuses of the
\* transfers made on it and its balance are those of executing the same
\* transfers one at a time, from the initial balance, in some order.
C3_Linearizable ==
  in_flight = {} =>
    \A a \in DOMAIN pool :
      LET S == {c \in finished : asset_id[c] = a} IN
        \E order \in Orders(S) :
          /\ balance_after_prefix(order, Cardinality(S), resource_pool[a]) = pool[a]
          /\ \A n \in DOMAIN order :
               result[order[n]].status = status_in_order(order, n, resource_pool[a])

\* ---- C4 ----
\* C4: a transfer that ran alone on a known asset with balance b and amount a,
\* 0 < a <= b, returns COMMITTED with balance_after = b - a, and the pool
\* holds b - a for that asset when it returns.
C4_AloneCommits ==
  [][\A c \in Calls :
       ( /\ Returns(c)
         /\ alone'[c]
         /\ asset_id'[c] \in DOMAIN pool
         /\ 0 < amount'[c]
         /\ amount'[c] <= current_balance'[c] ) =>
         /\ result'[c].status = "COMMITTED"
         /\ result'[c].payload.balance_after = current_balance'[c] - amount'[c]
         /\ pool'[asset_id'[c]] = current_balance'[c] - amount'[c]]_vars

\* a transfer ran alone with 0 < a <= b and has returned COMMITTED
C4_Witness ==
  \E c \in finished :
    /\ alone[c]
    /\ asset_id[c] \in DOMAIN pool
    /\ 0 < amount[c] /\ amount[c] <= current_balance[c]
    /\ result[c].status = "COMMITTED"

\* ---- C5 ----
\* C5: a transfer made on a known asset whose balance is less than the amount
\* returns at once with status REJECTED, which is not the failure status, and
\* the step leaves the whole pool unchanged.
C5_InsufficientRejected ==
  [][\A c \in Calls :
       ( /\ Begins(c)
         /\ asset_id'[c] \in DOMAIN pool
         /\ pool[asset_id'[c]] < amount'[c] ) =>
         /\ pc'[c] = "done"
         /\ result'[c].status = "REJECTED"
         /\ result'[c].status # "CRITICAL_FAILURE"
         /\ pool' = pool]_vars

\* a transfer found its asset short of the amount and has returned REJECTED
C5_Witness ==
  \E c \in finished :
    /\ asset_id[c] \in DOMAIN pool
    /\ current_balance[c] < amount[c]
    /\ result[c].status = "REJECTED"

\* ---- C6 ----
\* C6: a transfer naming an asset that is not in the pool returns
\* status FAILED with a reason, and the pool is left as it was.
C6_UnknownAssetFailed ==
  [][\A c \in Calls :
       (Begins(c) /\ asset_id'[c] \notin DOMAIN pool) =>
         /\ pc'[c] = "done"
         /\ result'[c].status = "FAILED"
         /\ "reason" \in DOMAIN result'[c]
         /\ pool' = pool]_vars

\* ---- C7 ----
\* C7: a transfer whose amount is <= 0 returns a failure status (FAILED, or
\* the code's CRITICAL_FAILURE) and its steps change no balance; and no step
\* of any transfer increases a balance.
C7_NonPositiveAmountFails ==
  [][/\ \A c \in Calls :
          (Returns(c) /\ amount'[c] <= 0) =>
            /\ result'[c].status \in {"FAILED", "CRITICAL_FAILURE"}
            /\ pool' = pool
     /\ \A a \in DOMAIN pool : pool'[a] <= pool[a]]_vars

\* ---- C8 ----
\* C8: when the same logical transfer (known asset, amount > 0) is submitted
\* a second time after the first has returned, the second result equals the
\* first (transaction id, status, balance_after), and the asset is debited at
\* most once by the two.
C8_IdempotentReplay ==
  \A c, d \in finished :
    ( /\ tx_id[c] < tx_id[d]
      /\ alone[c] /\ alone[d]
      /\ same_transfer(c, d)
      /\ asset_id[c] \in DOMAIN pool
      /\ amount[c] > 0 ) =>
      /\ same_result(result[c], result[d])
      /\ started = {c, d} =>
           pool[asset_id[c]] =
             IF result[c].status = "COMMITTED"
             THEN resource_pool[asset_id[c]] - amount[c]
             ELSE resource_pool[asset_id[c]]

\* ---- C9 ----
\* C9: when all submissions made are the same logical transfer of an amount > 0, each was in
\* flight together with another one, and all have returned, one of them is
\* the executed one; every other one returned Conflict or the same result,
\* and the asset is debited by the executed one only.
C9_ConcurrentDuplicates ==
  ( /\ Cardinality(started) >= 2
    /\ in_flight = {}
    /\ \A c \in started : ~alone[c] /\ amount[c] > 0
    /\ \A c, d \in started : same_transfer(c, d) ) =>
    \E e \in started :
      /\ \A d \in started \ {e} :
           \/ result[d].status = "CONFLICT"
           \/ same_result(result[e], result[d])
      /\ asset_id[e] \in DOMAIN pool =>
           pool[asset_id[e]] =
             IF result[e].status = "COMMITTED"
             THEN resource_pool[asset_id[e]] - amount[e]
             ELSE resource_pool[asset_id[e]]

\* ---- C10 ----
\* C10: whenever a transfer has returned, the history holds a record of its
\* transaction with the returned status; and no step changes or removes a
\* record of the history.
C10_PersistedBeforeReported ==
  [][/\ \A c \in Calls :
          pc'[c] = "done" =>
            \E i \in DOMAIN history' :
              /\ history'[i].tx = tx_id'[c]
              /\ history'[i].status = result'[c].status
     /\ \A i \in DOMAIN history :
          i \in DOMAIN history' /\ history'[i] = history[i]]_vars

\* ---- C11 ----
\* C11: the result of every transfer that has returned has one of the
\* terminal statuses COMMITTED, REJECTED, FAILED.
C11_TerminalStatus ==
  \A c \in finished : result[c].status \in {"COMMITTED", "REJECTED", "FAILED"}

\* Under fair scheduling every transfer that was started returns, and once it
\* has returned it stays returned with the same result.
EventuallyOneResult ==
  /\ \A c \in Calls : (pc[c] # "idle") ~> (pc[c] = "done")
  /\ [][\A c \in Calls :
          pc[c] = "done" => (pc'[c] = "done" /\ result'[c] = result[c])]_vars

\* ---- C12 ----
\* the destination asset that the metadata of a request names
destination(m) == IF m = "k1" THEN "ghost" ELSE "None"

\* C12: once nothing is in flight, when every transfer made was a transfer
\* of an amount > 0 from a known asset to a specified destination whose
\* credit fails (the destination is unknown), no transfer is COMMITTED and
\* every balance has its value of before the transfers: no asset is left
\* debited.
C12_Compensation ==
  ( /\ started # {}
    /\ in_flight = {}
    /\ \A c \in started :
         /\ asset_id[c] \in DOMAIN pool
         /\ amount[c] > 0
         /\ destination(metadata[c]) # "None"
         /\ destination(metadata[c]) \notin DOMAIN pool ) =>
    /\ \A c \in started : result[c].status \in {"REJECTED", "FAILED", "CRITICAL_FAILURE"}
    /\ pool = resource_pool

\* ---- C13 ----
\* sum of the amounts of the calls of S
RECURSIVE sum_amounts(_)
sum_amounts(S) ==
  IF S = {} THEN 0
  ELSE LET c == CHOOSE x \in S : TRUE IN amount[c] + sum_amounts(S \ {c})

\* the calls on asset a that returned COMMITTED
committed_on(a) ==
  {c \in finished : asset_id[c] = a /\ result[c].status = "COMMITTED"}

\* C13: once nothing is in flight, the balance of every asset is its initial
\* balance minus the sum of the amounts of the transfers on it that returned
\* COMMITTED.
C13_NoLostUpdates ==
  in_flight = {} =>
    \A a \in DOMAIN pool :
      pool[a] = resource_pool[a] - sum_amounts(committed_on(a))

\* two transfers on one asset slept at the same time and both are COMMITTED
C13_Witness ==
  /\ in_flight = {}
  /\ \E c, d \in finished :
       /\ c # d
       /\ asset_id[c] = asset_id[d]
       /\ ~alone[c] /\ ~alone[d]
       /\ amount[c] > 0 /\ amount[d] > 0
       /\ result[c].status = "COMMITTED"
       /\ result[d].status = "COMMITTED"

\* ---- C14 ----
\* C14: a step changes the pool only if it is the step in which a call
\* returns COMMITTED; a call that returns REJECTED or the failure result
\* returns in the step in which it was made, and that step leaves the pool
\* unchanged; and a call that wakes up applies its decrement and returns
\* COMMITTED in that same step.
C14_ChangeIffCommitted ==
  [][/\ pool' # pool =>
          \E c \in Calls : Returns(c) /\ result'[c].status = "COMMITTED"
     /\ \A c \in Calls :
          (Returns(c) /\ result'[c].status \in {"REJECTED", "CRITICAL_FAILURE"}) =>
            (Begins(c) /\ pool' = pool)
     /\ \A c \in Calls :
          (pc[c] = "sleeping" /\ pc'[c] # "sleeping") =>
            /\ pc'[c] = "done"
            /\ result'[c].status = "COMMITTED"
            /\ pool' = [pool EXCEPT ![asset_id[c]] = @ - amount[c]]
     /\ \A c \in Calls :
          (Returns(c) /\ result'[c].status = "COMMITTED") =>
            pool' = [pool EXCEPT ![asset_id[c]] = @ - amount[c]]]_vars

\* one call has returned COMMITTED with its asset debited, another REJECTED,
\* another the failure result
C14_Witness ==
  \E c, d \in finished :
    /\ result[c].status = "COMMITTED"
    /\ amount[c] > 0
    /\ pool[asset_id[c]] < resource_pool[asset_id[c]]
    /\ result[d].status \in {"REJECTED", "CRITICAL_FAILURE"}

\* ---- C15 ----
\* C15: the balance_after of a COMMITTED result is the balance the pool holds
\* for the asset right after the decrement of that call, that is the balance
\* the pool held when the call woke up minus the amount.
C15_BalanceAfterIsPoolBalance ==
  [][\A c \in Calls :
       (Returns(c) /\ result'[c].status = "COMMITTED") =>
         /\ result'[c].payload.balance_after = pool'[asset_id[c]]
         /\ result'[c].payload.balance_after = pool[asset_id[c]] - amount[c]]_vars

\* a COMMITTED result whose balance_after differs from the balance read at
\* check time minus the amount: another transfer committed during the delay
C15_Witness ==
  \E c \in finished :
    /\ result[c].status = "COMMITTED"
    /\ ~alone[c]
    /\ result[c].payload.balance_after # current_balance[c] - amount[c]

\* ---- C16 ----
\* C16: every step of a transfer on asset X leaves the balance of every other
\* asset and the set of asset ids of the pool unchanged; and whenever nothing
\* is in flight, a transfer that is the only one made on its asset has the
\* status, and its asset the balance, of that transfer executed alone from
\* the initial balance, whatever ran on the other assets.
C16_Frame ==
  [][/\ DOMAIN pool' = DOMAIN pool
     /\ \A c \in Calls :
          pc'[c] # pc[c] =>
            \A a \in DOMAIN pool : a # asset_id'[c] => pool'[a] = pool[a]
     /\ in_flight' = {} =>
          \A c \in Calls :
            ( /\ pc'[c] = "done"
              /\ asset_id'[c] \in DOMAIN pool
              /\ \A d \in Calls \ {c} : pc'[d] = "idle" \/ asset_id'[d] # asset_id'[c] ) =>
              /\ result'[c].status =
                   alone_transfer(resource_pool[asset_id'[c]], amount'[c])[1]
              /\ pool'[asset_id'[c]] =
                   alone_transfer(resource_pool[asset_id'[c]], amount'[c])[2]]_vars

\* two transfers on different assets slept at the same time and both debited
C16_Witness ==
  \E c, d \in finished :
    /\ asset_id[c] \in DOMAIN pool /\ asset_id[d] \in DOMAIN pool
    /\ asset_id[c] # asset_id[d]
    /\ ~alone[c] /\ ~alone[d]
    /\ amount[c] > 0 /\ amount[d] > 0
    /\ result[c].status = "COMMITTED"
    /\ result[d].status = "COMMITTED"
====
